---- MODULE Spec2Model ----
(***************************************************************************)
(* Model of github-sci/codats: the gradient-reversal layer, the model      *)
(* factory and the loss factories of src/models.py and the dataset loader  *)
(* of src/load_datasets.py.                                                *)
(*                                                                         *)
(* Tensors are sequences (vectors) or sequences of sequences (matrices).   *)
(* tf.float32 values that are not whole numbers are fixed-point integers   *)
(* in units of 1/Scale.                                                    *)
(***************************************************************************)
EXTENDS Integers, Sequences, FiniteSets, TLC

VARIABLES global_step, model, learning_phase, FLAGS, env, tf_variables, bn_stats, last

vars == <<global_step, model, learning_phase, FLAGS, env, tf_variables, bn_stats, last>>

(***************************************************************************)
(* Bounds of the model.                                                    *)
(***************************************************************************)
MaxStep == 3
MaxLen == 2
MaxBatch == 4
MaxTime == 3
MaxFeat == 3
MaxFlag == 4
MaxSources == 2
MaxUpdates == 2

(***************************************************************************)
(* Values.                                                                 *)
(***************************************************************************)
\* one unit of tf.float32 in the fixed-point representation
Scale == 10000

\* Python None
NoneVal == [tag |-> "None"]

\* the vectors of length 1..n over the set S
Vectors(S, n) == UNION {[1..k -> S] : k \in 1..n}

\* tensor entries and upstream gradients used as inputs
TensorValues == {-1, 2}

\* grl_lambda inputs of flip_gradient: 0, 0.5, 1.0 (the default), -1.0
LambdaValues == {0, Scale \div 2, Scale, 0 - Scale}

(***************************************************************************)
(* models.py: gradient reversal                                            *)
(***************************************************************************)
\* tf.cast(v, tf.float32): every modelled value is on the fixed-point grid
tf_cast_float32(v) == v

\* tf.ones_like(x)
tf_ones_like(x) == [i \in DOMAIN x |-> 1]

\* tf.negative(dy)
tf_negative(dy) == [i \in DOMAIN dy |-> 0 - dy[i]]

\* the upstream gradients a tensor of the shape of x can receive
Upstream(x) == [DOMAIN x -> TensorValues]

flip_gradient_wrong_sign(x, grl_lambda) ==
    [y |-> x,
     grad |-> [dy \in Upstream(x) |->
                 [i \in DOMAIN x |-> dy[i] * tf_cast_float32(grl_lambda)]]]

\* flip_gradient(x, grl_lambda): the pair (x, grad) of the custom gradient;
\* grad(dy) is in units of 1/Scale
flip_gradient(x, grl_lambda) ==
    LET l == tf_cast_float32(grl_lambda)
    IN  [y |-> x,
         grad |-> [dy \in Upstream(x) |->
                     [i \in DOMAIN x |->
                         tf_negative(dy)[i] * l * tf_ones_like(x)[i]]]]

\* grl schedules: closures over their construction arguments
ConstantGrlSchedule(constant) == [kind |-> "Constant", arg |-> constant]

DisableGrlSchedule == [kind |-> "Disable", arg |-> 0]

DannGrlSchedule(num_steps) == [kind |-> "Dann", arg |-> num_steps]

\* tf.exp(-k) for whole k >= 0, rounded to 1/Scale
ExpNegTable == <<10000, 3679, 1353, 498, 183, 67, 25, 9, 3, 1>>

tf_exp_neg(k) == IF k + 1 \in DOMAIN ExpNegTable THEN ExpNegTable[k + 1] ELSE 0

\* num_steps for which 10/(num_steps+1) is a whole number
NumStepsChoices == {1, 4}

schedule_disable_tenth(s, step) ==
    CASE s.kind = "Constant" -> s.arg
      [] s.kind = "Disable" -> 0 - Scale \div 10
      [] s.kind = "Dann" ->
            LET e == tf_exp_neg((10 * step) \div (s.arg + 1))
            IN  (2 * Scale * Scale) \div (Scale + e) - Scale

\* schedule(step) of the schedule closure s
schedule(s, step) ==
    CASE s.kind = "Constant" -> s.arg
      [] s.kind = "Disable" -> 0 - Scale
      [] s.kind = "Dann" ->
            LET e == tf_exp_neg((10 * step) \div (s.arg + 1))
            IN  (2 * Scale * Scale) \div (Scale + e) - Scale

\* FlipGradient.__init__: the layer keeps a reference to the step variable
FlipGradient_init(step_ref, grl_schedule) ==
    [kind |-> "FlipGradient", global_step |-> step_ref,
     grl_schedule |-> grl_schedule]

\* reading a tf.Variable through a reference: heap maps references to values
ReadVariable(heap, ref) == heap[ref]

FlipGradient_call_stale(layer, heap, inputs) ==
    LET grl_lambda == schedule(layer.grl_schedule, 0)
    IN  [grl_lambda |-> grl_lambda, out |-> flip_gradient(inputs, grl_lambda)]

\* FlipGradient.call
FlipGradient_call(layer, heap, inputs) ==
    LET grl_lambda == schedule(layer.grl_schedule,
                               ReadVariable(heap, layer.global_step))
    IN  [grl_lambda |-> grl_lambda, out |-> flip_gradient(inputs, grl_lambda)]

(***************************************************************************)
(* models.py: the catalog of architectures                                 *)
(***************************************************************************)
\* a tf.keras layer: its class and its size argument (units, filters; 0 if none)
Layer(kind, n) == [kind |-> kind, n |-> n]

\* tf.keras.Sequential(layers)
Sequential(layers) == [kind |-> "Sequential", n |-> 0, layers |-> layers,
                       cloned |-> FALSE]

\* the sequence of k copies of e
Repeat(e, k) == [i \in 1..k |-> e]

make_dense_bn_dropout(units, dropout) ==
    Sequential(<<Layer("Dense", units), Layer("BatchNormalization", 0),
                 Layer("Activation", 0), Layer("Dropout", dropout)>>)

\* ResnetBlock(units, dropout, layers)
ResnetBlock(units, dropout, layers) ==
    [kind |-> "ResnetBlock", n |-> units,
     blocks |-> Repeat(make_dense_bn_dropout(units, dropout), layers)]

make_vrada_model(num_classes, step_ref, grl_schedule, flags) ==
    LET fe_layers == 5
        task_layers == 1
        domain_layers == 2
        resnet_layers == 2
        units == 50
        dropout == flags.dropout
        make_classifier(layers, num_outputs) ==
            Sequential(Repeat(make_dense_bn_dropout(units, dropout), layers - 1)
                       \o <<Layer("Dense", num_outputs), Layer("Activation", 0)>>)
        make_binary_classifier(layers) ==
            Sequential(Repeat(make_dense_bn_dropout(units, dropout), layers - 1)
                       \o <<Layer("Dense", 1)>>)
    IN  [fe |-> Sequential(
                  <<Layer("Flatten", 0), Layer("BatchNormalization", 0)>>
                  \o Repeat(make_dense_bn_dropout(units, dropout), resnet_layers)
                  \o Repeat(ResnetBlock(units, dropout, resnet_layers),
                            fe_layers - 1)),
         task |-> Sequential(<<make_classifier(task_layers, num_classes)>>),
         domain |-> Sequential(<<FlipGradient_init(step_ref, grl_schedule),
                                 make_binary_classifier(domain_layers)>>)]

make_dann_mnist_model(num_classes, step_ref, grl_schedule) ==
    [fe |-> Sequential(<<Layer("Conv2D", 32), Layer("MaxPool2D", 0),
                         Layer("Conv2D", 48), Layer("MaxPool2D", 0),
                         Layer("Flatten", 0)>>),
     task |-> Sequential(<<Layer("Dense", 100), Layer("Dense", 100),
                           Layer("Dense", num_classes)>>),
     domain |-> Sequential(<<FlipGradient_init(step_ref, grl_schedule),
                             Layer("Dense", 100), Layer("Dense", 1)>>)]

make_dann_svhn_model(num_classes, step_ref, grl_schedule, flags) ==
    LET dropout == flags.dropout
        conv(n) == <<Layer("Conv2D", n), Layer("BatchNormalization", 0),
                     Layer("ReLU", 0)>>
        pool == <<Layer("MaxPool2D", 0), Layer("Dropout", dropout)>>
        dense(n) == <<Layer("Dense", n), Layer("BatchNormalization", 0),
                      Layer("ReLU", 0), Layer("Dropout", dropout)>>
    IN  [fe |-> Sequential(conv(64) \o pool \o conv(64) \o pool \o conv(128)
                           \o <<Layer("Flatten", 0)>>),
         task |-> Sequential(dense(3072) \o dense(2048)
                             \o <<Layer("Dense", num_classes)>>),
         domain |-> Sequential(<<FlipGradient_init(step_ref, grl_schedule)>>
                               \o dense(1024) \o dense(1024)
                               \o <<Layer("Dense", 1)>>)]

make_dann_gtsrb_model(num_classes, step_ref, grl_schedule) ==
    [fe |-> Sequential(<<Layer("Conv2D", 96), Layer("MaxPool2D", 0),
                         Layer("Conv2D", 144), Layer("MaxPool2D", 0),
                         Layer("Conv2D", 256), Layer("MaxPool2D", 0),
                         Layer("Flatten", 0)>>),
     task |-> Sequential(<<Layer("Dense", 512), Layer("Dense", num_classes)>>),
     domain |-> Sequential(<<FlipGradient_init(step_ref, grl_schedule),
                             Layer("Dense", 1024), Layer("Dense", 1024),
                             Layer("Dense", 1)>>)]

make_vada_model(num_classes, step_ref, grl_schedule, small) ==
    LET conv_blocks(depth) ==
            <<Layer("Conv2D", depth), Layer("BatchNormalization", 0),
              Layer("LeakyReLU", 0),
              Layer("Conv2D", depth), Layer("BatchNormalization", 0),
              Layer("LeakyReLU", 0),
              Layer("Conv2D", depth), Layer("BatchNormalization", 0),
              Layer("LeakyReLU", 0)>>
        pool_blocks == <<Layer("MaxPool2D", 0), Layer("Dropout", Scale \div 2),
                         Layer("GaussianNoise", 1)>>
    IN  [fe |-> Sequential(conv_blocks(IF small THEN 64 ELSE 96)
                           \o pool_blocks
                           \o conv_blocks(IF small THEN 64 ELSE 192)
                           \o pool_blocks),
         task |-> Sequential(conv_blocks(IF small THEN 64 ELSE 192)
                             \o <<Layer("GlobalAvgPool2D", 0),
                                  Layer("Flatten", 0),
                                  Layer("Dense", num_classes)>>),
         domain |-> Sequential(<<FlipGradient_init(step_ref, grl_schedule),
                                 Layer("Flatten", 0), Layer("Dense", 100),
                                 Layer("BatchNormalization", 0),
                                 Layer("ReLU", 0), Layer("Dense", 1)>>)]

make_resnet50_model(num_classes, step_ref, grl_schedule) ==
    [fe |-> Sequential(<<Layer("ResNet50", 0)>>),
     task |-> Sequential(<<Layer("Flatten", 0), Layer("Dense", num_classes)>>),
     domain |-> Sequential(<<FlipGradient_init(step_ref, grl_schedule),
                             Layer("Flatten", 0), Layer("Dense", 1)>>)]

\* the list models and names()
models == <<"flat", "dann_mnist", "dann_svhn", "dann_gtsrb", "vada_small",
            "vada_large", "resnet50">>

names == models

\* the set of the entries of a sequence
Range(s) == {s[i] : i \in DOMAIN s}

clone_model_same_object(m) == m

\* tf.keras.models.clone_model(m): a new model with the same layer
\* configuration as m
clone_model(m) == [m EXCEPT !.cloned = TRUE]

\* a raised exception
Raise(exc) == [tag |-> exc]

Raised(r) == r.tag \in {"NotImplementedError", "AssertionError", "TypeError",
                      "InvalidArgumentError"}

DomainAdaptationModel_init_fallback(num_classes, model_name, step_ref, num_steps, use_grl, flags) ==
    LET grl_schedule == IF use_grl THEN DannGrlSchedule(num_steps)
                        ELSE DisableGrlSchedule
        t == IF model_name = "dann_mnist"
             THEN make_dann_mnist_model(num_classes, step_ref, grl_schedule)
             ELSE make_vrada_model(num_classes, step_ref, grl_schedule, flags)
    IN  [tag |-> "DomainAdaptationModel", model_name |-> model_name,
         feature_extractor |-> t.fe, task_classifier |-> t.task,
         domain_classifier |-> t.domain,
         target_classifier |-> clone_model(t.task)]

\* DomainAdaptationModel.__init__: the constructed model, or the exception
DomainAdaptationModel_init(num_classes, model_name, step_ref, num_steps, use_grl, flags) ==
    LET grl_schedule == IF use_grl THEN DannGrlSchedule(num_steps)
                        ELSE DisableGrlSchedule
        known == {"flat", "dann_mnist", "dann_svhn", "dann_gtsrb",
                  "vada_small", "vada_large", "resnet50"}
        t == CASE model_name = "flat" ->
                    make_vrada_model(num_classes, step_ref, grl_schedule, flags)
               [] model_name = "dann_mnist" ->
                    make_dann_mnist_model(num_classes, step_ref, grl_schedule)
               [] model_name = "dann_svhn" ->
                    make_dann_svhn_model(num_classes, step_ref, grl_schedule,
                                         flags)
               [] model_name = "dann_gtsrb" ->
                    make_dann_gtsrb_model(num_classes, step_ref, grl_schedule)
               [] model_name = "vada_small" ->
                    make_vada_model(num_classes, step_ref, grl_schedule, TRUE)
               [] model_name = "vada_large" ->
                    make_vada_model(num_classes, step_ref, grl_schedule, FALSE)
               [] model_name = "resnet50" ->
                    make_resnet50_model(num_classes, step_ref, grl_schedule)
    IN  IF model_name \in known
        THEN [tag |-> "DomainAdaptationModel", model_name |-> model_name,
              feature_extractor |-> t.fe, task_classifier |-> t.task,
              domain_classifier |-> t.domain,
              target_classifier |-> clone_model(t.task)]
        ELSE Raise("NotImplementedError")

(***************************************************************************)
(* models.py: the variables of a DomainAdaptationModel                     *)
(***************************************************************************)
\* the names of the trainable variables a layer of a kind creates
LayerVariableNames(kind) ==
    CASE kind \in {"Dense", "Conv2D"} -> <<"kernel", "bias">>
      [] kind = "BatchNormalization" -> <<"gamma", "beta">>
      [] kind = "ResNet50" -> <<"resnet50">>
      [] OTHER -> <<>>

RECURSIVE VariablesOf(_, _, _)
RECURSIVE VariablesOfLayers(_, _, _, _)
\* the variables of the layers from position i on, in order
VariablesOfLayers(owner, path, layers, i) ==
    IF i > Len(layers) THEN <<>>
    ELSE VariablesOf(owner, path \o <<i>>, layers[i])
         \o VariablesOfLayers(owner, path, layers, i + 1)

\* the variables of a layer of the object owner, in the order in which
\* Keras lists them; a variable is the object that owns it, the path of
\* its layer in the object and its name. The objects of a model are told
\* apart by their configuration and, for a clone, by being a clone.
VariablesOf(owner, path, layer) ==
    CASE layer.kind = "Sequential" ->
            VariablesOfLayers(owner, path, layer.layers, 1)
      [] layer.kind = "ResnetBlock" ->
            VariablesOfLayers(owner, path, layer.blocks, 1)
      [] OTHER ->
            [k \in DOMAIN LayerVariableNames(layer.kind) |->
                [owner |-> owner, path |-> path,
                 name |-> LayerVariableNames(layer.kind)[k]]]

\* no model, no variable
NoWeights == [o \in {} |-> [built |-> FALSE, value |-> 0]]

\* the four objects of a DomainAdaptationModel
ModelParts(m) == <<m.feature_extractor, m.task_classifier,
                   m.domain_classifier, m.target_classifier>>

\* the state of the variables after construction, per object: a Sequential
\* creates the variables of its layers when it is first called, and none
\* has been updated
NewWeights(m) ==
    [o \in Range(ModelParts(m)) |-> [built |-> FALSE, value |-> 0]]

\* a variable exists once its object was called; the pretrained backbone
\* has its variables from the start
Created(v, w) == w[v.owner].built \/ v.name = "resnet50"

\* the value of a variable: the number of updates applied to it
VariableValue(v, w) == w[v.owner].value

\* obj.trainable_variables: the variables created so far
trainable_variables(obj, w) ==
    SelectSeq(VariablesOf(obj, <<>>, obj), LAMBDA v : Created(v, w))

trainable_variables_task(m, w) ==
    trainable_variables(m.feature_extractor, w)
    \o trainable_variables(m.task_classifier, w)

trainable_variables_task_domain(m, w) ==
    trainable_variables(m.feature_extractor, w)
    \o trainable_variables(m.task_classifier, w)
    \o trainable_variables(m.domain_classifier, w)

trainable_variables_target(m, w) ==
    trainable_variables(m.feature_extractor, w)
    \o trainable_variables(m.target_classifier, w)

\* the batch-normalization statistics before any CycleGAN exists
NoStats == [n \in {} |-> {}]

(***************************************************************************)
(* State of the gradient-reversal and model-factory specification.         *)
(***************************************************************************)
\* the command-line flags at their defaults
FlagDefaults ==
    [dropout |-> 500, train_batch |-> 128, eval_batch |-> 4096,
     shuffle_buffer |-> 60000, prefetch_buffer |-> 1,
     tune_num_parallel_calls |-> FALSE, eval_shuffle_seed |-> 0,
     eval_max_examples |-> 0, trim_time_steps |-> 0, feature_subset |-> 0]

\* the environment outside the process: nothing is read from it here
NoEnv == [datasets |-> <<>>, files |-> {}, map_to_source |-> {},
          map_to_target |-> {}]

\* the tf.Variable objects, by reference
Heap == [global_step |-> global_step]

\* model names passed to the constructor: the catalog and three others
ModelNameInputs == Range(names) \cup {"vrada", "Flat", ""}

NumClassesInputs == {2}

Init ==
    /\ global_step = 0
    /\ model = NoneVal
    /\ learning_phase = 0
    /\ FLAGS = FlagDefaults
    /\ env = NoEnv
    /\ tf_variables = NoWeights
    /\ bn_stats = NoStats
    /\ last = [op |-> "idle"]

\* the program is between two operations: no result is pending
Idle == last.op = "idle"

\* the caller has taken the result of the last operation
Return ==
    /\ ~Idle
    /\ last' = [op |-> "idle"]
    /\ UNCHANGED <<global_step, model, learning_phase, FLAGS, env, tf_variables, bn_stats>>

\* the training loop advances the global step
IncrementStep ==
    /\ Idle
    /\ global_step < MaxStep
    /\ global_step' = global_step + 1
    /\ last' = [op |-> "idle"]
    /\ UNCHANGED <<model, learning_phase, FLAGS, env, tf_variables, bn_stats>>

\* flip_gradient(x, grl_lambda) and its gradient for an upstream dy
CallFlipGradientFunction ==
    /\ Idle
    /\ \E x \in Vectors(TensorValues, MaxLen), l \in LambdaValues :
      \E dy \in Upstream(x) :
        LET r == flip_gradient(x, l)
        IN  last' = [op |-> "flip_gradient", x |-> x, dy |-> dy,
                     grl_lambda |-> l, y |-> r.y, dx |-> r.grad[dy]]
    /\ UNCHANGED <<global_step, model, learning_phase, FLAGS, env, tf_variables, bn_stats>>

\* model = DomainAdaptationModel(num_classes, model_name, global_step,
\*                               num_steps, use_grl)
Construct ==
    /\ Idle
    /\ \E model_name \in ModelNameInputs, num_classes \in NumClassesInputs,
       num_steps \in NumStepsChoices, use_grl \in BOOLEAN :
        LET r == DomainAdaptationModel_init(num_classes, model_name,
                     "global_step", num_steps, use_grl, FLAGS)
        IN  /\ last' = [op |-> "DomainAdaptationModel",
                        model_name |-> model_name, use_grl |-> use_grl,
                        result |-> r]
            /\ model' = IF Raised(r) THEN model ELSE r
            /\ tf_variables' = IF Raised(r) THEN tf_variables ELSE NewWeights(r)
            /\ UNCHANGED <<global_step, learning_phase, FLAGS, env, bn_stats>>

\* the FlipGradient layer of the domain classifier is called on a tensor
\* and an upstream gradient flows back through it
CallFlipGradientLayer ==
    /\ Idle
    /\ model # NoneVal
    /\ \E x \in Vectors(TensorValues, MaxLen) :
         \E dy \in Upstream(x) :
           LET layer == model.domain_classifier.layers[1]
               r == FlipGradient_call(layer, Heap, x)
           IN  last' = [op |-> "FlipGradient.call", x |-> x, dy |-> dy,
                        step |-> global_step, grl_lambda |-> r.grl_lambda,
                        y |-> r.out.y, dx |-> r.out.grad[dy]]
    /\ UNCHANGED <<global_step, model, learning_phase, FLAGS, env, tf_variables, bn_stats>>

Next ==
    \/ Return
    \/ IncrementStep
    \/ CallFlipGradientFunction
    \/ Construct
    \/ CallFlipGradientLayer

Spec == Init /\ [][Next]_vars

(***************************************************************************)
(* Properties of the gradient reversal and the model factory.              *)
(***************************************************************************)
\* C1: flip_gradient returns x unchanged on the forward pass and, for every
\* upstream gradient dy and scale grl_lambda, -(dy) * grl_lambda as the
\* gradient with respect to x: the negated dy at grl_lambda = 1, zero at
\* grl_lambda = 0.
C1_FlipGradient ==
    last.op = "flip_gradient" =>
        /\ last.y = last.x
        /\ DOMAIN last.dx = DOMAIN last.x
        /\ \A i \in DOMAIN last.x :
              /\ last.dx[i] = (0 - last.dy[i]) * last.grl_lambda
              /\ last.grl_lambda = Scale => last.dx[i] = (0 - last.dy[i]) * Scale
              /\ last.grl_lambda = 0 => last.dx[i] = 0

C1_Witness ==
    /\ last.op = "flip_gradient"
    /\ Len(last.x) = 2
    /\ last.grl_lambda = Scale \div 2
    /\ last.dy = <<2, -1>>
    /\ last.dx = <<0 - Scale, Scale \div 2>>

\* C2: the grl_lambda a call of a FlipGradient layer uses is grl_schedule
\* applied to the value the global step holds at the moment of the call.
C2_LambdaFromCurrentStep ==
    last.op = "FlipGradient.call" =>
        /\ last.step = global_step
        /\ last.grl_lambda =
              schedule(model.domain_classifier.layers[1].grl_schedule,
                       global_step)
        /\ \A i \in DOMAIN last.x :
              last.dx[i] = (0 - last.dy[i]) * last.grl_lambda

C2_Witness ==
    /\ last.op = "FlipGradient.call"
    /\ global_step = 2
    /\ model.domain_classifier.layers[1].grl_schedule.kind = "Dann"
    /\ last.grl_lambda # schedule(model.domain_classifier.layers[1].grl_schedule, 0)
    /\ last.grl_lambda # schedule(model.domain_classifier.layers[1].grl_schedule, 1)

\* C3: constructing a DomainAdaptationModel yields a feature extractor, a
\* task classifier and a domain classifier exactly for the model names of
\* names(); any other name raises NotImplementedError and builds no model.
C3_ConstructExactlyNames ==
    last.op = "DomainAdaptationModel" =>
        IF last.model_name \in Range(names)
        THEN /\ last.result.tag = "DomainAdaptationModel"
             /\ model = last.result
             /\ last.result.feature_extractor.kind = "Sequential"
             /\ last.result.task_classifier.kind = "Sequential"
             /\ last.result.domain_classifier.kind = "Sequential"
             /\ last.result.domain_classifier.layers[1].kind = "FlipGradient"
        ELSE /\ last.result = Raise("NotImplementedError")
             /\ model # last.result

C3_Witness ==
    /\ last.op = "DomainAdaptationModel"
    /\ last.model_name = "vrada"
    /\ last.result = Raise("NotImplementedError")
    /\ model # NoneVal
    /\ model.model_name = "resnet50"

(***************************************************************************)
(* Tensors of rank 2 and tf.slice                                          *)
(***************************************************************************)
\* a tensor of shape [r, c] with the rows v
Tensor2(r, c, v) == [shape |-> <<r, c>>, v |-> v]

\* tf.shape(x)
tf_shape(x) == x.shape

\* tf.minimum(a, b)
tf_minimum(a, b) == IF a < b THEN a ELSE b

\* the extent tf.slice takes in a dimension of length dim: size -1 means
\* all that remains after begin
SliceExtent(dim, begin, size) == IF size = -1 THEN dim - begin ELSE size

tf_slice_trailing(x, begin, size) ==
    LET n0 == SliceExtent(x.shape[1], begin[1], size[1])
        n1 == SliceExtent(x.shape[2], begin[2], size[2])
    IN  Tensor2(n0, n1,
                [i \in 1..n0 |-> [j \in 1..n1 |->
                    x.v[x.shape[1] - n0 + i][x.shape[2] - n1 + j]]])

\* tf.slice(x, begin, size) of a rank-2 tensor (begin is 0-based)
tf_slice(x, begin, size) ==
    LET n0 == SliceExtent(x.shape[1], begin[1], size[1])
        n1 == SliceExtent(x.shape[2], begin[2], size[2])
    IN  IF /\ 0 <= begin[1] /\ 0 <= n0 /\ begin[1] + n0 <= x.shape[1]
           /\ 0 <= begin[2] /\ 0 <= n1 /\ begin[2] + n1 <= x.shape[2]
        THEN Tensor2(n0, n1,
                     [i \in 1..n0 |-> [j \in 1..n1 |->
                         x.v[begin[1] + i][begin[2] + j]]])
        ELSE Raise("InvalidArgumentError")

(***************************************************************************)
(* models.py: the loss factories                                           *)
(***************************************************************************)
\* tf.keras.losses.CategoricalCrossentropy()
CategoricalCrossentropy == [kind |-> "CategoricalCrossentropy",
                            from_logits |-> FALSE]

\* tf.keras.losses.BinaryCrossentropy(from_logits=...)
BinaryCrossentropy(from_logits) == [kind |-> "BinaryCrossentropy",
                                    from_logits |-> from_logits]

\* cce(y_true, y_pred, sample_weight=...): the value the framework computes,
\* kept as the application of the loss object to its arguments
LossCall(cce, y_true, y_pred, sample_weight) ==
    [tag |-> "loss", cce |-> cce, y_true |-> y_true, y_pred |-> y_pred,
     sample_weight |-> sample_weight]

\* a Python number returned as it is
PyNumber(n) == [tag |-> "number", value |-> n]

\* the closures the factories return
make_task_loss(adapt) ==
    [fn |-> "task_loss", adapt |-> adapt, cce |-> CategoricalCrossentropy]

make_weighted_loss ==
    [fn |-> "weighted_task_loss", adapt |-> FALSE,
     cce |-> CategoricalCrossentropy]

make_domain_loss(use_domain_loss) ==
    IF use_domain_loss
    THEN [fn |-> "domain_loss", adapt |-> FALSE,
          cce |-> BinaryCrossentropy(TRUE)]
    ELSE [fn |-> "domain_loss_zero", adapt |-> FALSE, cce |-> NoneVal]

make_mapping_loss ==
    [fn |-> "mapping_loss", adapt |-> FALSE, cce |-> BinaryCrossentropy(TRUE)]

\* K.learning_phase() as a truth value
K_learning_phase(phase) == IF phase = 1 THEN "True" ELSE "False"

task_loss_whole_batch(f, y_true, y_pred, training, phase) ==
    LossCall(f.cce, y_true, y_pred, NoneVal)

\* task_loss(y_true, y_pred, training) of make_task_loss(adapt)
task_loss(f, y_true, y_pred, training, phase) ==
    LET t == IF training = "None" THEN K_learning_phase(phase) ELSE training
        batch_size == tf_shape(y_pred)[1]
    IN  IF f.adapt /\ t = "True"
        THEN LossCall(f.cce,
                      tf_slice(y_true, <<0, 0>>, <<batch_size \div 2, -1>>),
                      tf_slice(y_pred, <<0, 0>>, <<batch_size \div 2, -1>>),
                      NoneVal)
        ELSE LossCall(f.cce, y_true, y_pred, NoneVal)

\* task_loss(y_true, y_pred, weights, training) of make_weighted_loss()
weighted_task_loss(f, y_true, y_pred, weights, training) ==
    LossCall(f.cce, y_true, y_pred, weights)

domain_loss_always_cce(f, y_true, y_pred) ==
    LossCall(BinaryCrossentropy(TRUE), y_true, y_pred, NoneVal)

\* domain_loss(y_true, y_pred) of make_domain_loss(use_domain_loss)
domain_loss(f, y_true, y_pred) ==
    IF f.fn = "domain_loss"
    THEN LossCall(f.cce, y_true, y_pred, NoneVal)
    ELSE PyNumber(0)

\* mapping_loss(y_true, y_pred) of make_mapping_loss()
mapping_loss(f, y_true, y_pred) == LossCall(f.cce, y_true, y_pred, NoneVal)

(***************************************************************************)
(* The loss specification: losses are called on batches while the Keras    *)
(* learning phase is switched.                                             *)
(***************************************************************************)
\* rows of y_true (one-hot) and of y_pred (probabilities in units of 1/Scale)
TrueRows == {<<1, 0>>, <<0, 1>>}

PredRows == {<<7000, 3000>>, <<2000, 8000>>}

\* the batches of 0..MaxBatch rows
Batches(rows) ==
    {Tensor2(b, 2, v) : <<b, v>> \in
        UNION {{<<b, v>> : v \in [1..b -> rows]} : b \in 0..MaxBatch}}

\* the training argument: True, False or None
TrainingInputs == {"True", "False", "None"}

InitLoss == Init

\* tf.keras.backend.set_learning_phase(1) or (0), as model calls do
SetLearningPhase ==
    /\ Idle
    /\ \E training \in {"True", "False"} :
         learning_phase' = IF training = "True" THEN 1 ELSE 0
    /\ last' = [op |-> "idle"]
    /\ UNCHANGED <<global_step, model, FLAGS, env, tf_variables, bn_stats>>

CallTaskLoss ==
    /\ Idle
    /\ \E adapt \in BOOLEAN, training \in TrainingInputs,
       y_true \in Batches(TrueRows) :
      \E y_pred \in {p \in Batches(PredRows) : p.shape = y_true.shape} :
        LET f == make_task_loss(adapt)
        IN  /\ last' = [op |-> "loss", f |-> f, y_true |-> y_true,
                        y_pred |-> y_pred, weights |-> NoneVal,
                        training |-> training,
                        result |-> task_loss(f, y_true, y_pred, training,
                                             learning_phase)]
            /\ UNCHANGED <<global_step, model, learning_phase, FLAGS, env, tf_variables, bn_stats>>

CallWeightedLoss ==
    /\ Idle
    /\ \E y_true \in Batches(TrueRows) :
      \E y_pred \in {p \in Batches(PredRows) : p.shape = y_true.shape},
         weights \in [1..y_true.shape[1] -> {0, Scale}] :
        LET f == make_weighted_loss
        IN  /\ last' = [op |-> "loss", f |-> f, y_true |-> y_true,
                        y_pred |-> y_pred, weights |-> weights,
                        training |-> "None",
                        result |-> weighted_task_loss(f, y_true, y_pred,
                                                      weights, "None")]
            /\ UNCHANGED <<global_step, model, learning_phase, FLAGS, env, tf_variables, bn_stats>>

CallDomainLoss ==
    /\ Idle
    /\ \E use_domain_loss \in BOOLEAN, y_true \in Batches(TrueRows) :
      \E y_pred \in {p \in Batches(PredRows) : p.shape = y_true.shape} :
        LET f == make_domain_loss(use_domain_loss)
        IN  /\ last' = [op |-> "loss", f |-> f, y_true |-> y_true,
                        y_pred |-> y_pred, weights |-> NoneVal,
                        training |-> "None",
                        result |-> domain_loss(f, y_true, y_pred)]
            /\ UNCHANGED <<global_step, model, learning_phase, FLAGS, env, tf_variables, bn_stats>>

CallMappingLoss ==
    /\ Idle
    /\ \E y_true \in Batches(TrueRows) :
      \E y_pred \in {p \in Batches(PredRows) : p.shape = y_true.shape} :
        LET f == make_mapping_loss
        IN  /\ last' = [op |-> "loss", f |-> f, y_true |-> y_true,
                        y_pred |-> y_pred, weights |-> NoneVal,
                        training |-> "None",
                        result |-> mapping_loss(f, y_true, y_pred)]
            /\ UNCHANGED <<global_step, model, learning_phase, FLAGS, env, tf_variables, bn_stats>>

NextLoss ==
    \/ Return
    \/ SetLearningPhase
    \/ CallTaskLoss
    \/ CallWeightedLoss
    \/ CallDomainLoss
    \/ CallMappingLoss

SpecLoss == InitLoss /\ [][NextLoss]_vars

(***************************************************************************)
(* Properties of the loss factories.                                       *)
(***************************************************************************)
\* whether the task loss of the last call ran in the training phase: the
\* training argument, or the Keras learning phase when it is None
LastTraining ==
    IF last.training = "None" THEN learning_phase = 1
    ELSE last.training = "True"

\* t is made of exactly the first n rows of the tensor x
IsLeadingRows(t, x, n) ==
    /\ t.shape = <<n, x.shape[2]>>
    /\ DOMAIN t.v = 1..n
    /\ \A i \in 1..n : t.v[i] = x.v[i]

\* C4: for a batch of B rows the loss of make_task_loss(adapt) is computed
\* on exactly the first floor(B/2) rows of y_true and y_pred when adapt and
\* training are true, and on all B rows when adapt or training is false.
C4_TaskLossHalfBatch ==
    (last.op = "loss" /\ last.f.fn = "task_loss") =>
        LET B == last.y_true.shape[1]
        IN  /\ last.result.tag = "loss"
            /\ IF last.f.adapt /\ LastTraining
               THEN /\ IsLeadingRows(last.result.y_true, last.y_true, B \div 2)
                    /\ IsLeadingRows(last.result.y_pred, last.y_pred, B \div 2)
               ELSE /\ last.result.y_true = last.y_true
                    /\ last.result.y_pred = last.y_pred
                    /\ last.result.y_true.shape[1] = B

C4_Witness ==
    /\ last.op = "loss"
    /\ last.f.fn = "task_loss"
    /\ last.f.adapt
    /\ last.training = "True"
    /\ last.y_true.shape[1] = 3
    /\ last.y_true.v = <<(<<1, 0>>), (<<0, 1>>), (<<0, 1>>)>>
    /\ last.result.y_true.v = <<(<<1, 0>>)>>
    /\ last.result.y_pred.shape[1] = 1

\* C5 as stated: every loss function of the four factories returns the
\* framework's categorical or binary cross-entropy applied to its y_true
\* and y_pred arguments.
C5_AllLossesAreCrossEntropy ==
    last.op = "loss" =>
        /\ last.result.tag = "loss"
        /\ last.result.cce.kind \in {"CategoricalCrossentropy",
                                      "BinaryCrossentropy"}
        /\ last.result.y_true = last.y_true
        /\ last.result.y_pred = last.y_pred

\* C5 amended: the loss of make_domain_loss(False) returns the number 0 and
\* calls no cross-entropy; every other loss function of the factories
\* returns the cross-entropy object of its factory applied to its y_true
\* and y_pred arguments, which the task loss first cuts to their leading
\* floor(B/2) rows when adapt and training are true, and to which the
\* weighted loss passes its weights as sample_weight.
C5_LossesDeferExceptDisabledDomainLoss ==
    last.op = "loss" =>
        IF last.f.fn = "domain_loss_zero"
        THEN last.result = PyNumber(0)
        ELSE /\ last.result.tag = "loss"
             /\ last.result.cce = last.f.cce
             /\ last.result.cce.kind =
                    (IF last.f.fn \in {"task_loss", "weighted_task_loss"}
                     THEN "CategoricalCrossentropy" ELSE "BinaryCrossentropy")
             /\ last.result.sample_weight = last.weights
             /\ IF last.f.fn = "task_loss" /\ last.f.adapt /\ LastTraining
                THEN /\ IsLeadingRows(last.result.y_true, last.y_true,
                                      last.y_true.shape[1] \div 2)
                     /\ IsLeadingRows(last.result.y_pred, last.y_pred,
                                      last.y_pred.shape[1] \div 2)
                ELSE /\ last.result.y_true = last.y_true
                     /\ last.result.y_pred = last.y_pred

C5_Witness ==
    /\ last.op = "loss"
    /\ last.f.fn = "domain_loss"
    /\ last.y_true.shape[1] = 2
    /\ last.result.tag = "loss"
    /\ last.result.cce = BinaryCrossentropy(TRUE)
    /\ last.result.y_pred = last.y_pred

(***************************************************************************)
(* load_datasets.py: parsing one serialized example                        *)
(***************************************************************************)
\* tf.io.serialize_tensor(t): the data type, the shape and the entries in
\* row-major order (how the record files were written)
tf_io_serialize_tensor(t) ==
    [dtype |-> "float32", shape |-> t.shape,
     content |-> IF Len(t.shape) = 1 THEN t.v
                 ELSE [k \in 1..(t.shape[1] * t.shape[2]) |->
                         t.v[((k - 1) \div t.shape[2]) + 1]
                            [((k - 1) % t.shape[2]) + 1]]]

\* tf.io.parse_tensor(serialized, out_type) for tensors of rank 1 and 2
tf_io_parse_tensor(serialized, out_type) ==
    IF serialized.dtype # out_type THEN Raise("InvalidArgumentError")
    ELSE IF Len(serialized.shape) = 1
    THEN [shape |-> serialized.shape, v |-> serialized.content]
    ELSE Tensor2(serialized.shape[1], serialized.shape[2],
                 [i \in 1..serialized.shape[1] |->
                    [j \in 1..serialized.shape[2] |->
                        serialized.content[(i - 1) * serialized.shape[2] + j]]])

\* tf.io.parse_single_example(example_proto, feature_description): the two
\* string features x and y
tf_io_parse_single_example(example_proto) ==
    [x |-> example_proto.features.x, y |-> example_proto.features.y]

parse_example_function_no_feature_trim(example_proto, flags) ==
    LET parsed == tf_io_parse_single_example(example_proto)
        x0 == tf_io_parse_tensor(parsed.x, "float32")
        y == tf_io_parse_tensor(parsed.y, "float32")
        x1 == IF flags.trim_time_steps # 0
              THEN tf_slice(x0, <<0, 0>>,
                       <<tf_minimum(tf_shape(x0)[1], flags.trim_time_steps),
                         tf_shape(x0)[2]>>)
              ELSE x0
    IN  [x |-> x1, y |-> y]

\* _parse_example_function(example_proto): the pair (x, y)
parse_example_function(example_proto, flags) ==
    LET parsed == tf_io_parse_single_example(example_proto)
        x0 == tf_io_parse_tensor(parsed.x, "float32")
        y == tf_io_parse_tensor(parsed.y, "float32")
        x1 == IF flags.trim_time_steps # 0
              THEN tf_slice(x0, <<0, 0>>,
                       <<tf_minimum(tf_shape(x0)[1], flags.trim_time_steps),
                         tf_shape(x0)[2]>>)
              ELSE x0
        x2 == IF flags.feature_subset # 0
              THEN tf_slice(x1, <<0, 0>>,
                       <<tf_shape(x1)[1],
                         tf_minimum(tf_shape(x1)[2], flags.feature_subset)>>)
              ELSE x1
    IN  [x |-> x2, y |-> y]

(***************************************************************************)
(* The parsing specification: the flags are set on the command line, then  *)
(* the records of a file are parsed one by one.                            *)
(***************************************************************************)
\* the examples written to the record files: x of shape [time_steps,
\* features] whose entries are all different, y a one-hot label
ExampleX(time_steps, features) ==
    Tensor2(time_steps, features,
            [i \in 1..time_steps |-> [j \in 1..features |-> 10 * i + j]])

ExampleInputsX ==
    {ExampleX(t, f) : <<t, f>> \in (0..MaxTime) \X (1..MaxFeat)}

ExampleInputsY ==
    {[shape |-> <<Len(v)>>, v |-> v] :
        v \in {<<1, 0>>, <<0, 1>>, <<0, 0, 1>>, <<1, 0, 0, 0>>}}

\* the tf.Example of the pair (x, y)
ExampleProto(x, y) ==
    [features |-> [x |-> tf_io_serialize_tensor(x),
                   y |-> tf_io_serialize_tensor(y)]]

\* flag values: 0 (use everything) and sizes
FlagSizes == 0..MaxFlag

InitParse ==
    /\ global_step = 0
    /\ model = NoneVal
    /\ learning_phase = 0
    /\ \E t \in FlagSizes, f \in FlagSizes :
         FLAGS = [FlagDefaults EXCEPT !.trim_time_steps = t,
                                      !.feature_subset = f]
    /\ env = NoEnv
    /\ tf_variables = NoWeights
    /\ bn_stats = NoStats
    /\ last = [op |-> "idle"]

\* dataset.map(_parse_example_function) reaches the next record
ParseExample ==
    /\ Idle
    /\ \E x \in ExampleInputsX, y \in ExampleInputsY :
         LET r == parse_example_function(ExampleProto(x, y), FLAGS)
         IN  last' = [op |-> "parse_example", x_in |-> x, y_in |-> y,
                      x |-> r.x, y |-> r.y]
    /\ UNCHANGED <<global_step, model, learning_phase, FLAGS, env, tf_variables, bn_stats>>

NextParse ==
    \/ Return
    \/ ParseExample

SpecParse == InitParse /\ [][NextParse]_vars

\* C6: the loader returns x of shape [min(time_steps, trim_time_steps) if
\* trim_time_steps != 0 else time_steps, min(features, feature_subset) if
\* feature_subset != 0 else features], made of the leading time steps and
\* the leading features in their order; y is returned untrimmed; with both
\* flags 0 the example is unchanged.
C6_TrimLeading ==
    last.op = "parse_example" =>
        LET time_steps == last.x_in.shape[1]
            features == last.x_in.shape[2]
            t == IF FLAGS.trim_time_steps # 0
                 THEN (IF time_steps < FLAGS.trim_time_steps THEN time_steps
                       ELSE FLAGS.trim_time_steps)
                 ELSE time_steps
            f == IF FLAGS.feature_subset # 0
                 THEN (IF features < FLAGS.feature_subset THEN features
                       ELSE FLAGS.feature_subset)
                 ELSE features
        IN  /\ last.x.shape = <<t, f>>
            /\ DOMAIN last.x.v = 1..t
            /\ \A i \in 1..t :
                  /\ DOMAIN last.x.v[i] = 1..f
                  /\ \A j \in 1..f : last.x.v[i][j] = last.x_in.v[i][j]
            /\ last.y = last.y_in
            /\ (FLAGS.trim_time_steps = 0 /\ FLAGS.feature_subset = 0)
                  => last.x = last.x_in

C6_Witness ==
    /\ last.op = "parse_example"
    /\ FLAGS.trim_time_steps = 2
    /\ FLAGS.feature_subset = 1
    /\ last.x_in.shape = <<3, 3>>
    /\ last.x.shape = <<2, 1>>
    /\ last.x.v = <<(<<11>>), (<<21>>)>>
    /\ last.y = [shape |-> <<3>>, v |-> <<0, 0, 1>>]

(***************************************************************************)
(* load_datasets.py: Dataset                                               *)
(***************************************************************************)
\* a Python value that is not None, where None is possible too
Some(v) == [tag |-> "value", v |-> v]

IsNone(a) == a.tag = "None"

\* tf.data.experimental.AUTOTUNE
AUTOTUNE == -1

\* one step of a tf.data pipeline
PipelineOp(op, a, b) == [op |-> op, a |-> a, b |-> b]

\* Dataset.load_tfrecords(filenames, batch_size, count, evaluation): None
\* for no file, else the pipeline over the interleaved files
load_tfrecords(self, filenames, batch_size, count, evaluation) ==
    IF Len(filenames) = 0 THEN NoneVal
    ELSE
      LET interleave == <<PipelineOp("interleave", Len(filenames), 1)>>
          take == IF evaluation /\ self.eval_max_examples # 0
                  THEN <<PipelineOp("take", self.eval_max_examples, 0)>>
                  ELSE <<>>
          shuffle ==
              IF count THEN <<>>
              ELSE IF evaluation
              THEN <<PipelineOp("shuffle", self.shuffle_buffer,
                                self.eval_shuffle_seed)>>
              ELSE <<PipelineOp("shuffle", self.shuffle_buffer, 0),
                     PipelineOp("repeat", 0, 0)>>
          prefetch_buffer == IF self.prefetch_buffer = 0 THEN AUTOTUNE
                             ELSE self.prefetch_buffer
          \* 0 stands for num_parallel_calls=None
          num_parallel_calls == IF self.tune_num_parallel_calls THEN AUTOTUNE
                                ELSE 0
      IN  [tag |-> "tf.data.Dataset", files |-> filenames,
           ops |-> interleave \o take \o shuffle
                   \o <<PipelineOp("map", 0, num_parallel_calls),
                        PipelineOp("batch", batch_size, 0),
                        PipelineOp("prefetch", prefetch_buffer, 0)>>]

\* Dataset.load_dataset(train_filenames, test_filenames)
load_dataset(self, train_filenames, test_filenames) ==
    [train |-> load_tfrecords(self, train_filenames, self.train_batch,
                              FALSE, FALSE),
     train_evaluation |-> load_tfrecords(self, train_filenames,
                                         self.eval_batch, FALSE, TRUE),
     test_evaluation |-> load_tfrecords(self, test_filenames,
                                        self.eval_batch, FALSE, TRUE)]

\* the keyword arguments of Dataset(), all left at None
NoKwargs ==
    [train_batch |-> NoneVal, eval_batch |-> NoneVal,
     shuffle_buffer |-> NoneVal, prefetch_buffer |-> NoneVal,
     eval_shuffle_seed |-> NoneVal, eval_max_examples |-> NoneVal,
     tune_num_parallel_calls |-> NoneVal]

OrFlag_falsy_uses_flag(a, flag) ==
    IF IsNone(a) \/ ToString(a.v) \in {"0", "FALSE"} THEN flag ELSE a.v

\* an argument, or the flag if the argument is None
OrFlag(a, flag) == IF IsNone(a) THEN flag ELSE a.v

\* Dataset.__init__: the Dataset, or the exception
Dataset_init(num_classes, class_labels, num_domains, train_filenames, test_filenames, invert_name, kw, flags, e) ==
    IF num_classes # Len(class_labels) THEN Raise("AssertionError")
    ELSE IF ~IsNone(invert_name) /\ invert_name.v \notin e.map_to_source
    THEN Raise("AssertionError")
    ELSE IF ~IsNone(invert_name) /\ invert_name.v \notin e.map_to_target
    THEN Raise("AssertionError")
    ELSE
      LET self ==
            [tag |-> "Dataset", invert_name |-> invert_name,
             num_classes |-> num_classes, class_labels |-> class_labels,
             num_domains |-> num_domains,
             train_batch |-> OrFlag(kw.train_batch, flags.train_batch),
             eval_batch |-> OrFlag(kw.eval_batch, flags.eval_batch),
             shuffle_buffer |-> OrFlag(kw.shuffle_buffer,
                                       flags.shuffle_buffer),
             prefetch_buffer |-> OrFlag(kw.prefetch_buffer,
                                        flags.prefetch_buffer),
             eval_shuffle_seed |-> OrFlag(kw.eval_shuffle_seed,
                                          flags.eval_shuffle_seed),
             eval_max_examples |-> OrFlag(kw.eval_max_examples,
                                          flags.eval_max_examples),
             tune_num_parallel_calls |->
                 OrFlag(kw.tune_num_parallel_calls,
                        flags.tune_num_parallel_calls)]
          d == load_dataset(self, train_filenames, test_filenames)
      IN  [tag |-> "Dataset", invert_name |-> self.invert_name,
           num_classes |-> self.num_classes,
           class_labels |-> self.class_labels,
           num_domains |-> self.num_domains,
           train_batch |-> self.train_batch,
           eval_batch |-> self.eval_batch,
           shuffle_buffer |-> self.shuffle_buffer,
           prefetch_buffer |-> self.prefetch_buffer,
           eval_shuffle_seed |-> self.eval_shuffle_seed,
           eval_max_examples |-> self.eval_max_examples,
           tune_num_parallel_calls |-> self.tune_num_parallel_calls,
           train |-> d.train, train_evaluation |-> d.train_evaluation,
           test_evaluation |-> d.test_evaluation]

(***************************************************************************)
(* load_datasets.py: load and load_da                                      *)
(***************************************************************************)
\* tfrecord_filename(dataset_name, split): the file name, kept as the
\* application of the function to its arguments
tfrecord_filename(dataset_name, split) ==
    [fn |-> "tfrecord_filename", dataset_name |-> dataset_name,
     split |-> split]

\* os.path.join("datasets", filename)
os_path_join(dir, filename) == [dir |-> dir, filename |-> filename]

\* _path(filename) of load
path_of(filename, e) ==
    LET fn == os_path_join("datasets", filename)
    IN  IF fn \in e.files THEN <<fn>> ELSE <<>>

load_always_adds_valid(dataset_name, num_domains, test, kw, flags, e) ==
    IF dataset_name \notin DOMAIN e.datasets THEN Raise("AssertionError")
    ELSE
      LET info == e.datasets[dataset_name]
          train == path_of(tfrecord_filename(dataset_name, "train"), e)
          valid == path_of(tfrecord_filename(dataset_name, "valid"), e)
          tst == path_of(tfrecord_filename(dataset_name, "test"), e)
      IN  Dataset_init(info.num_classes, info.class_labels, num_domains,
                       train \o valid, IF ~test THEN valid ELSE tst,
                       IF info.invertible THEN Some(dataset_name) ELSE NoneVal,
                       kw, flags, e)

\* load(dataset_name, num_domains, test, **kwargs)
load(dataset_name, num_domains, test, kw, flags, e) ==
    IF dataset_name \notin DOMAIN e.datasets THEN Raise("AssertionError")
    ELSE
      LET info == e.datasets[dataset_name]
          num_classes == info.num_classes
          class_labels == info.class_labels
          invert_name == IF info.invertible THEN Some(dataset_name)
                         ELSE NoneVal
          train_filenames0 ==
              path_of(tfrecord_filename(dataset_name, "train"), e)
          valid_filenames ==
              path_of(tfrecord_filename(dataset_name, "valid"), e)
          test_filenames0 ==
              path_of(tfrecord_filename(dataset_name, "test"), e)
          test_filenames == IF ~test THEN valid_filenames ELSE test_filenames0
          train_filenames == IF ~test THEN train_filenames0
                             ELSE train_filenames0 \o valid_filenames
      IN  Dataset_init(num_classes, class_labels, num_domains,
                       train_filenames, test_filenames, invert_name, kw,
                       flags, e)

\* the position of the first sep in the string s, 0 if there is none
Find(s, sep) ==
    IF \E i \in DOMAIN s : s[i] = sep
    THEN CHOOSE i \in DOMAIN s :
            s[i] = sep /\ \A k \in 1..(i - 1) : s[k] # sep
    ELSE 0

RECURSIVE str_split(_, _)
\* s.split(sep) of a string s, a sequence of characters
str_split(s, sep) ==
    LET i == Find(s, sep)
    IN  IF i = 0 THEN <<s>>
        ELSE <<SubSeq(s, 1, i - 1)>> \o str_split(SubSeq(s, i + 1, Len(s)), sep)

\* names() of load_datasets: datasets.names()
dataset_names(e) == DOMAIN e.datasets

\* the first exception among the results rs, in the order of the loop
FirstRaised(rs) ==
    rs[CHOOSE i \in DOMAIN rs :
          Raised(rs[i]) /\ \A k \in 1..(i - 1) : ~Raised(rs[k])]

\* the result (source_datasets, target_dataset) of load_da
DaResult(source_datasets, target_dataset) ==
    [tag |-> "tuple", sources |-> source_datasets, target |-> target_dataset]

\* the names dataset + "_" + x of the entries x
DomainNames(dataset, entries) ==
    [i \in DOMAIN entries |-> dataset \o <<"_">> \o entries[i]]

load_da_target_not_counted(dataset, sources, target, test, kw, flags, e) ==
    LET src == DomainNames(dataset, str_split(sources, ","))
        tgt == IF ~IsNone(target) THEN Some(dataset \o <<"_">> \o target.v)
               ELSE NoneVal
        num_domains == Len(src)
        loaded == [i \in DOMAIN src |-> load(src[i], num_domains, test, kw, flags, e)]
        target_dataset == load(tgt.v, num_domains, test, kw, flags, e)
    IN  IF \E i \in DOMAIN src : src[i] \notin dataset_names(e)
        THEN Raise("AssertionError")
        ELSE IF IsNone(tgt) THEN Raise("TypeError")
        ELSE IF tgt.v \notin dataset_names(e) THEN Raise("AssertionError")
        ELSE IF \E i \in DOMAIN loaded : Raised(loaded[i])
        THEN FirstRaised(loaded)
        ELSE IF Raised(target_dataset) THEN target_dataset
        ELSE IF \E i \in DOMAIN loaded :
                    loaded[i].num_classes # target_dataset.num_classes
        THEN Raise("AssertionError")
        ELSE DaResult(loaded, target_dataset)

load_da_no_class_check(dataset, sources, target, test, kw, flags, e) ==
    LET src == DomainNames(dataset, str_split(sources, ","))
        tgt == IF ~IsNone(target) THEN Some(dataset \o <<"_">> \o target.v)
               ELSE NoneVal
        num_domains == Len(src) + (IF ~IsNone(tgt) THEN 1 ELSE 0)
        loaded == [i \in DOMAIN src |-> load(src[i], num_domains, test, kw, flags, e)]
        target_dataset == load(tgt.v, num_domains, test, kw, flags, e)
    IN  IF \E i \in DOMAIN src : src[i] \notin dataset_names(e)
        THEN Raise("AssertionError")
        ELSE IF IsNone(tgt) THEN Raise("TypeError")
        ELSE IF tgt.v \notin dataset_names(e) THEN Raise("AssertionError")
        ELSE IF \E i \in DOMAIN loaded : Raised(loaded[i])
        THEN FirstRaised(loaded)
        ELSE IF Raised(target_dataset) THEN target_dataset
        ELSE DaResult(loaded, target_dataset)

\* load_da(dataset, sources, target, **kwargs): the pair, or the exception
load_da(dataset, sources, target, test, kw, flags, e) ==
    LET \* sources = [dataset+"_"+x for x in sources.split(",")]
        src == DomainNames(dataset, str_split(sources, ","))
        tgt == IF ~IsNone(target) THEN Some(dataset \o <<"_">> \o target.v)
               ELSE NoneVal
        num_domains == Len(src) + (IF ~IsNone(tgt) THEN 1 ELSE 0)
        valid_names == dataset_names(e)
        source_datasets ==
            [i \in DOMAIN src |-> load(src[i], num_domains, test, kw, flags, e)]
        target_dataset == load(tgt.v, num_domains, test, kw, flags, e)
    IN  IF \E i \in DOMAIN src : src[i] \notin valid_names
        THEN Raise("AssertionError")
        \* assert target in valid_names, "unknown target domain: "+target
        \* None is in no list of names, and building the message of the
        \* failed assertion adds None to a str
        ELSE IF IsNone(tgt) THEN Raise("TypeError")
        ELSE IF tgt.v \notin valid_names THEN Raise("AssertionError")
        ELSE IF \E i \in DOMAIN source_datasets : Raised(source_datasets[i])
        THEN FirstRaised(source_datasets)
        ELSE IF ~IsNone(tgt)
        THEN IF Raised(target_dataset) THEN target_dataset
             ELSE IF \E i \in DOMAIN source_datasets :
                        source_datasets[i].num_classes
                            # target_dataset.num_classes
             THEN Raise("AssertionError")
             ELSE DaResult(source_datasets, target_dataset)
        ELSE DaResult(source_datasets, NoneVal)

(***************************************************************************)
(* The loading specification: the dataset catalog, the inversions and the  *)
(* record files are fixed before the program starts; load and load_da are  *)
(* called on them.                                                         *)
(***************************************************************************)
\* the dataset of the catalog and the names of its domains
DatasetInputs == {<<"ucihar">>}

CatalogNames == {<<"ucihar", "_", "1">>, <<"ucihar", "_", "2">>}

ClassLabels == <<"walk", "sit", "stand">>

\* an entry of datasets.datasets
DatasetInfo(num_classes, invertible) ==
    [num_classes |-> num_classes,
     class_labels |-> SubSeq(ClassLabels, 1, num_classes),
     invertible |-> invertible]

\* the record files of the catalog for the splits that exist
FilesOf(splits) ==
    {os_path_join("datasets", tfrecord_filename(n, sp)) :
        <<n, sp>> \in CatalogNames \X splits}

SplitChoices == {{"train", "valid", "test"}, {"train", "valid"},
                 {"train", "test"}, {}}

\* which datasets are invertible and what datasets.inversions defines
InversionChoices ==
    {[invertible |-> {}, map_to_source |-> {}, map_to_target |-> {}],
     [invertible |-> {<<"ucihar", "_", "1">>},
      map_to_source |-> {<<"ucihar", "_", "1">>},
      map_to_target |-> {<<"ucihar", "_", "1">>}],
     [invertible |-> {<<"ucihar", "_", "1">>},
      map_to_source |-> {<<"ucihar", "_", "1">>},
      map_to_target |-> {}]}

InitLoad ==
    /\ global_step = 0
    /\ model = NoneVal
    /\ learning_phase = 0
    /\ FLAGS = FlagDefaults
    /\ \E classes \in [CatalogNames -> {2, 3}], splits \in SplitChoices,
          inv \in InversionChoices :
         env = [datasets |-> [n \in CatalogNames |->
                                DatasetInfo(classes[n], n \in inv.invertible)],
                files |-> FilesOf(splits),
                map_to_source |-> inv.map_to_source,
                map_to_target |-> inv.map_to_target]
    /\ tf_variables = NoWeights
    /\ bn_stats = NoStats
    /\ last = [op |-> "idle"]

\* the strings of at most n characters over the set chars
Strings(chars, n) == UNION {[1..k -> chars] : k \in 0..n}

\* the sources argument: at most MaxSources entries of one character
SourcesInputs == Strings({"1", "2", ","}, 2 * MaxSources - 1)

TargetInputs == {NoneVal, Some(<<"1">>), Some(<<"2">>), Some(<<"3">>)}

CallLoad ==
    /\ Idle
    /\ \E dataset_name \in CatalogNames \cup {<<"ucihar", "_", "3">>},
          num_domains \in 1..2, test \in BOOLEAN :
         last' = [op |-> "load", dataset_name |-> dataset_name,
                  num_domains |-> num_domains, test |-> test,
                  result |-> load(dataset_name, num_domains, test, NoKwargs,
                                  FLAGS, env)]
    /\ UNCHANGED <<global_step, model, learning_phase, FLAGS, env, tf_variables, bn_stats>>

CallLoadDa ==
    /\ Idle
    /\ \E dataset \in DatasetInputs, sources \in SourcesInputs,
          target \in TargetInputs, test \in BOOLEAN :
         last' = [op |-> "load_da", dataset |-> dataset, sources |-> sources,
                  target |-> target, test |-> test,
                  result |-> load_da(dataset, sources, target, test, NoKwargs,
                                     FLAGS, env)]
    /\ UNCHANGED <<global_step, model, learning_phase, FLAGS, env, tf_variables, bn_stats>>

NextLoad ==
    \/ Return
    \/ CallLoad
    \/ CallLoadDa

SpecLoad == InitLoad /\ [][NextLoad]_vars

(***************************************************************************)
(* Properties of load and load_da.                                         *)
(***************************************************************************)
\* the files a pipeline of a Dataset reads; none for None
FilesRead(pipeline) == IF IsNone(pipeline) THEN <<>> ELSE pipeline.files

\* the file of a split of a dataset, as a list: empty if it does not exist
SplitFile(dataset_name, split) ==
    LET fn == [dir |-> "datasets",
               filename |-> tfrecord_filename(dataset_name, split)]
    IN  IF fn \in env.files THEN <<fn>> ELSE <<>>

\* C7: load with test=False trains on the train file only and evaluates
\* the validation file as the test data, never reading the test file; load
\* with test=True trains on the train file followed by the validation file
\* and evaluates the test file; no file is both trained on and evaluated
\* as test data.
C7_LoadSplits ==
    (last.op = "load" /\ last.result.tag = "Dataset") =>
        LET d == last.result
            train == SplitFile(last.dataset_name, "train")
            valid == SplitFile(last.dataset_name, "valid")
            tst == SplitFile(last.dataset_name, "test")
            read == Range(FilesRead(d.train))
                    \cup Range(FilesRead(d.train_evaluation))
                    \cup Range(FilesRead(d.test_evaluation))
        IN  /\ IF ~last.test
               THEN /\ FilesRead(d.train) = train
                    /\ FilesRead(d.train_evaluation) = train
                    /\ FilesRead(d.test_evaluation) = valid
                    /\ Range(tst) \cap read = {}
               ELSE /\ FilesRead(d.train) = train \o valid
                    /\ FilesRead(d.train_evaluation) = train \o valid
                    /\ FilesRead(d.test_evaluation) = tst
            /\ Range(FilesRead(d.train))
                  \cap Range(FilesRead(d.test_evaluation)) = {}

C7_Witness ==
    /\ last.op = "load"
    /\ last.test
    /\ last.result.tag = "Dataset"
    /\ Len(FilesRead(last.result.train)) = 2
    /\ FilesRead(last.result.train)[2].filename.split = "valid"
    /\ Len(FilesRead(last.result.test_evaluation)) = 1
    /\ FilesRead(last.result.test_evaluation)[1].filename.split = "test"

\* the number of comma-separated entries of a string
NumEntries(s) == 1 + Cardinality({i \in DOMAIN s : s[i] = ","})

\* C8: a successful load_da with a target returns one source Dataset per
\* comma-separated entry of sources, in the order of the entries, and the
\* target Dataset, each with num_domains = number of entries + 1.
C8_LoadDaSourcesAndTarget ==
    (last.op = "load_da" /\ last.result.tag = "tuple"
        /\ ~IsNone(last.target)) =>
        LET n == NumEntries(last.sources)
            r == last.result
        IN  /\ Len(r.sources) = n
            /\ Len(last.sources) = 2 * n - 1
            /\ \A i \in 1..n :
                  /\ r.sources[i] =
                        load(last.dataset \o <<"_", last.sources[2 * i - 1]>>,
                             n + 1, last.test, NoKwargs, FLAGS, env)
                  /\ r.sources[i].tag = "Dataset"
                  /\ r.sources[i].num_domains = n + 1
            /\ r.target = load(last.dataset \o <<"_">> \o last.target.v,
                                n + 1, last.test, NoKwargs, FLAGS, env)
            /\ r.target.tag = "Dataset"
            /\ r.target.num_domains = n + 1

C8_Witness ==
    /\ last.op = "load_da"
    /\ last.sources = <<"2", ",", "1">>
    /\ last.target = Some(<<"2">>)
    /\ last.result.tag = "tuple"
    /\ Len(last.result.sources) = 2
    /\ Len(FilesRead(last.result.sources[1].train)) = 1
    /\ last.result.sources[1].train.files[1].filename.dataset_name
          = <<"ucihar", "_", "2">>
    /\ last.result.sources[2].train.files[1].filename.dataset_name
          = <<"ucihar", "_", "1">>
    /\ last.result.sources[2].num_domains = 3
    /\ last.result.target.num_domains = 3

\* the entries of the sources argument all name datasets of the catalog
ValidSources ==
    \A x \in Range(str_split(last.sources, ",")) :
        (last.dataset \o <<"_">> \o x) \in DOMAIN env.datasets

\* C9: load_da with target=None and valid source names returns
\* (source_datasets, None) without raising, the sources loaded with
\* num_domains = number of sources.
C9_TargetNoneReturnsSources ==
    (last.op = "load_da" /\ IsNone(last.target) /\ ValidSources) =>
        /\ last.result.tag = "tuple"
        /\ IsNone(last.result.target)
        /\ Len(last.result.sources) = NumEntries(last.sources)
        /\ \A i \in DOMAIN last.result.sources :
              last.result.sources[i].num_domains = NumEntries(last.sources)

\* C10: whenever load_da returns a target dataset, every source dataset it
\* returns has the num_classes of the target; when a valid source differs
\* from the valid target in num_classes, load_da fails with an assertion
\* error and returns nothing.
C10_SameNumClasses ==
    last.op = "load_da" =>
        /\ (last.result.tag = "tuple" /\ ~IsNone(last.result.target)) =>
              \A i \in DOMAIN last.result.sources :
                  last.result.sources[i].num_classes
                      = last.result.target.num_classes
        /\ (/\ ~IsNone(last.target)
            /\ ValidSources
            /\ (last.dataset \o <<"_">> \o last.target.v)
                   \in DOMAIN env.datasets
            /\ \E x \in Range(str_split(last.sources, ",")) :
                   env.datasets[last.dataset \o <<"_">> \o x].num_classes
                     # env.datasets[last.dataset \o <<"_">>
                                    \o last.target.v].num_classes)
              => last.result = Raise("AssertionError")

C10_Witness ==
    /\ last.op = "load_da"
    /\ last.sources = <<"1", ",", "2">>
    /\ last.target = Some(<<"1">>)
    /\ \A n \in DOMAIN env.datasets : ~env.datasets[n].invertible
    /\ env.datasets[<<"ucihar", "_", "1">>].num_classes = 3
    /\ env.datasets[<<"ucihar", "_", "2">>].num_classes = 2
    /\ last.result = Raise("AssertionError")

(***************************************************************************)
(* models.py: DomainAdaptationModel.call and the optimizer updates         *)
(***************************************************************************)
\* net(arg): the tensor a network computes, kept as the application of the
\* network to its argument
ModelApply(net, arg) == [tag |-> "apply", net |-> net, arg |-> arg]

\* a batch of real data of a domain
DataBatch(domain, k) == [tag |-> "data", domain |-> domain, k |-> k]

\* the learning phase after set_learning_phase(1), (0) or no call of it
PhaseAfter(training, phase) ==
    IF training = "True" THEN 1 ELSE IF training = "False" THEN 0 ELSE phase

\* the variables after the objects objs were called: a called object has
\* created its variables
Build(w, objs) ==
    [o \in DOMAIN w |-> IF o \in objs
                         THEN [w[o] EXCEPT !.built = TRUE] ELSE w[o]]

DomainAdaptationModel_call_ignores_target(m, inputs, target, training, phase, w) ==
    LET fe == ModelApply(m.feature_extractor, inputs)
    IN  [learning_phase |-> PhaseAfter(training, phase),
         task |-> ModelApply(m.task_classifier, fe),
         domain |-> ModelApply(m.domain_classifier, fe),
         evaluated |-> <<m.feature_extractor, m.domain_classifier,
                         m.task_classifier>>,
         variables |-> Build(w, {m.feature_extractor, m.domain_classifier,
                                 m.task_classifier})]

\* DomainAdaptationModel.call(inputs, target, training): the pair (task,
\* domain), the learning phase it leaves, the objects it evaluated in
\* order and the variables afterwards
DomainAdaptationModel_call(m, inputs, target, training, phase, w) ==
    LET fe == ModelApply(m.feature_extractor, inputs)
        domain == ModelApply(m.domain_classifier, fe)
        classifier == IF target THEN m.target_classifier
                      ELSE m.task_classifier
        task == ModelApply(classifier, fe)
        evaluated == <<m.feature_extractor, m.domain_classifier, classifier>>
    IN  [learning_phase |-> PhaseAfter(training, phase),
         task |-> task, domain |-> domain, evaluated |-> evaluated,
         variables |-> Build(w, Range(evaluated))]

\* the inputs of a model call
DataInputs == {DataBatch("source", 1), DataBatch("target", 1)}

\* the groups of variables an optimizer is given
VariableGroup(group, m, w) ==
    CASE group = "task" -> trainable_variables_task(m, w)
      [] group = "task_domain" -> trainable_variables_task_domain(m, w)
      [] group = "target" -> trainable_variables_target(m, w)

InitDA == Init

\* task_y_pred, domain_y_pred = model(x, target=..., training=...)
CallModel ==
    /\ Idle
    /\ model.tag = "DomainAdaptationModel"
    /\ \E inputs \in DataInputs, target \in BOOLEAN,
          training \in TrainingInputs :
         LET r == DomainAdaptationModel_call(model, inputs, target, training,
                                             learning_phase, tf_variables)
         IN  /\ learning_phase' = r.learning_phase
             /\ tf_variables' = r.variables
             /\ last' = [op |-> "DomainAdaptationModel.call",
                         inputs |-> inputs, target |-> target,
                         training |-> training, task |-> r.task,
                         domain |-> r.domain, evaluated |-> r.evaluated]
    /\ UNCHANGED <<global_step, model, FLAGS, env, bn_stats>>

\* an optimizer applies gradients to one of the groups of variables: every
\* variable of the group changes
ApplyGradients ==
    /\ Idle
    /\ model.tag = "DomainAdaptationModel"
    /\ \E group \in {"task", "task_domain", "target"} :
         LET vs == VariableGroup(group, model, tf_variables)
         IN  /\ Len(vs) > 0
             /\ \A v \in Range(vs) :
                    VariableValue(v, tf_variables) < MaxUpdates
             /\ tf_variables' =
                   [o \in DOMAIN tf_variables |->
                      IF \E v \in Range(vs) : v.owner = o
                      THEN [tf_variables[o] EXCEPT !.value = @ + 1]
                      ELSE tf_variables[o]]
             /\ last' = [op |-> "apply_gradients", group |-> group,
                         before |-> tf_variables]
    /\ UNCHANGED <<global_step, model, learning_phase, FLAGS, env, bn_stats>>

NextDA ==
    \/ Return
    \/ Construct
    \/ CallModel
    \/ ApplyGradients

SpecDA == InitDA /\ [][NextDA]_vars

\* C11: DomainAdaptationModel.call evaluates the feature extractor once and
\* returns (task, domain): domain is the domain classifier applied to the
\* feature output, task is the target classifier applied to it when target
\* is true and the task classifier applied to it otherwise; the classifier
\* not selected is not evaluated.
C11_CallSelectsClassifier ==
    last.op = "DomainAdaptationModel.call" =>
        LET fe == [tag |-> "apply", net |-> model.feature_extractor,
                   arg |-> last.inputs]
            selected == IF last.target THEN model.target_classifier
                        ELSE model.task_classifier
            other == IF last.target THEN model.task_classifier
                     ELSE model.target_classifier
        IN  /\ last.domain = [tag |-> "apply",
                              net |-> model.domain_classifier, arg |-> fe]
            /\ last.task = [tag |-> "apply", net |-> selected, arg |-> fe]
            /\ Cardinality({i \in DOMAIN last.evaluated :
                    last.evaluated[i] = model.feature_extractor}) = 1
            /\ selected \in Range(last.evaluated)
            /\ other \notin Range(last.evaluated)
            /\ Len(last.evaluated) = 3

C11_Witness ==
    /\ last.op = "DomainAdaptationModel.call"
    /\ last.target
    /\ model.model_name = "dann_mnist"
    /\ last.task.net = model.target_classifier
    /\ last.task.net # model.task_classifier
    /\ last.task.arg.net = model.feature_extractor
    /\ last.domain.arg = last.task.arg

\* all the variables of an object, created or not
AllVariables(obj) == Range(VariablesOf(obj, <<>>, obj))

\* C12: trainable_variables_task is the feature extractor's variables
\* followed by the task classifier's, trainable_variables_task_domain is
\* that followed by the domain classifier's, trainable_variables_target is
\* the feature extractor's followed by the target classifier's; the target
\* classifier shares no variable with the task classifier, and an update
\* of the target group changes no variable of the task classifier or of
\* the domain classifier.
C12_VariableGroups ==
    model.tag = "DomainAdaptationModel" =>
        LET w == tf_variables
            fe == trainable_variables(model.feature_extractor, w)
            task == trainable_variables(model.task_classifier, w)
            domain == trainable_variables(model.domain_classifier, w)
            target == trainable_variables(model.target_classifier, w)
        IN  /\ trainable_variables_task(model, w) = fe \o task
            /\ trainable_variables_task_domain(model, w)
                  = trainable_variables_task(model, w) \o domain
            /\ trainable_variables_target(model, w) = fe \o target
            /\ AllVariables(model.target_classifier)
                  \cap AllVariables(model.task_classifier) = {}
            /\ Len(VariablesOf(model.target_classifier, <<>>,
                               model.target_classifier))
                  = Len(VariablesOf(model.task_classifier, <<>>,
                                    model.task_classifier))
            /\ (last.op = "apply_gradients" /\ last.group = "target") =>
                  \A v \in AllVariables(model.task_classifier)
                           \cup AllVariables(model.domain_classifier) :
                      VariableValue(v, w) = VariableValue(v, last.before)

C12_Witness ==
    /\ model.tag = "DomainAdaptationModel"
    /\ model.model_name = "dann_gtsrb"
    /\ last.op = "apply_gradients"
    /\ last.group = "target"
    /\ Len(trainable_variables(model.task_classifier, tf_variables)) = 4
    /\ Len(trainable_variables_target(model, tf_variables)) = 10
    /\ \A v \in AllVariables(model.task_classifier) :
          VariableValue(v, tf_variables) = 1
    /\ \A v \in AllVariables(model.target_classifier) :
          /\ VariableValue(v, tf_variables) = 1
          /\ VariableValue(v, last.before) = 0
    /\ \A v \in AllVariables(model.feature_extractor) :
          VariableValue(v, tf_variables) = 2

(***************************************************************************)
(* models.py: CycleGAN                                                     *)
(***************************************************************************)
\* the networks of a CycleGAN, each of which holds batch normalization
GanNetworks == {"source_to_target", "target_to_source", "source_discriminator", "target_discriminator", "source_pre", "target_pre"}

\* the statistics of a new CycleGAN: no batch has updated any of them
NewStats == [n \in GanNetworks |-> {}]

\* CycleGAN(source_x_shape, target_x_shape)
CycleGAN_init(source_x_shape, target_x_shape, flags) ==
    IF target_x_shape # source_x_shape
    THEN Raise("AssertionError")
    ELSE [tag |-> "CycleGAN", units |-> 50, dropout |-> flags.dropout,
          source_to_target |-> [kind |-> "generator",
                                output_dims |-> target_x_shape],
          target_to_source |-> [kind |-> "generator",
                                output_dims |-> source_x_shape],
          source_discriminator |-> [kind |-> "discriminator"],
          target_discriminator |-> [kind |-> "discriminator"],
          source_pre |-> Sequential(<<Layer("BatchNormalization", 0)>>),
          target_pre |-> Sequential(<<Layer("BatchNormalization", 0)>>)]

\* net(x, training=training): batch normalization updates its statistics
\* with x when it runs in training mode, which for training=None is the
\* learning phase
NetCall(stats, net, x, training, phase) ==
    IF training = "True" \/ (training = "None" /\ phase = 1)
    THEN [stats EXCEPT ![net] = @ \cup {x}]
    ELSE stats

\* one branch of CycleGAN.call: real data through pre1 and gen1, the
\* generated data through pre2 with training=fake_training and back through
\* gen2, the discriminators on the two normalized tensors
ForwardAndBack(pre1, gen1, pre2, gen2, disc1, disc2, inputs, training, fake_training, phase, stats) ==
    LET x_norm == ModelApply(pre1, inputs)
        s1 == NetCall(stats, pre1, inputs, training, phase)
        gen == ModelApply(gen1, x_norm)
        s2 == NetCall(s1, gen1, x_norm, training, phase)
        fake_norm == ModelApply(pre2, gen)
        s3 == NetCall(s2, pre2, gen, fake_training, phase)
        gen_back == ModelApply(gen2, fake_norm)
        s4 == NetCall(s3, gen2, fake_norm, training, phase)
        disc_real == ModelApply(disc1, x_norm)
        s5 == NetCall(s4, disc1, x_norm, training, phase)
        disc_fake == ModelApply(disc2, fake_norm)
        s6 == NetCall(s5, disc2, fake_norm, training, phase)
    IN  [result |-> [tag |-> "tuple",
                     v |-> <<gen, gen_back, disc_real, disc_fake>>],
         bn_stats |-> s6]

CycleGAN_call_not_mirrored(gan, inputs, dest, training, phase, stats) ==
    LET p == PhaseAfter(training, phase)
        r == IF dest \in {"target", "source"}
             THEN ForwardAndBack("source_pre", "source_to_target",
                      "target_pre", "target_to_source",
                      "source_discriminator", "target_discriminator",
                      inputs, training, "False", p, stats)
             ELSE [result |-> Raise("NotImplementedError"),
                   bn_stats |-> stats]
    IN  [learning_phase |-> p, result |-> r.result, bn_stats |-> r.bn_stats]

CycleGAN_call_trains_on_fake(gan, inputs, dest, training, phase, stats) ==
    LET p == PhaseAfter(training, phase)
        r == IF dest = "target"
             THEN ForwardAndBack("source_pre", "source_to_target",
                      "target_pre", "target_to_source",
                      "source_discriminator", "target_discriminator",
                      inputs, training, training, p, stats)
             ELSE IF dest = "source"
             THEN ForwardAndBack("target_pre", "target_to_source",
                      "source_pre", "source_to_target",
                      "target_discriminator", "source_discriminator",
                      inputs, training, training, p, stats)
             ELSE [result |-> Raise("NotImplementedError"),
                   bn_stats |-> stats]
    IN  [learning_phase |-> p, result |-> r.result, bn_stats |-> r.bn_stats]

\* CycleGAN.call(inputs, dest, training): the four tensors or the
\* exception, the learning phase it leaves and the statistics afterwards
CycleGAN_call(gan, inputs, dest, training, phase, stats) ==
    LET p == PhaseAfter(training, phase)
        r == IF dest = "target"
             THEN ForwardAndBack("source_pre", "source_to_target",
                      "target_pre", "target_to_source",
                      "source_discriminator", "target_discriminator",
                      inputs, training, "False", p, stats)
             ELSE IF dest = "source"
             THEN ForwardAndBack("target_pre", "target_to_source",
                      "source_pre", "source_to_target",
                      "target_discriminator", "source_discriminator",
                      inputs, training, "False", p, stats)
             ELSE [result |-> Raise("NotImplementedError"),
                   bn_stats |-> stats]
    IN  [learning_phase |-> p, result |-> r.result, bn_stats |-> r.bn_stats]

\* CycleGAN.map_to_target(x)
map_to_target(gan, x, phase, stats) ==
    LET p == PhaseAfter("False", phase)
        x_norm == ModelApply("source_pre", x)
        s1 == NetCall(stats, "source_pre", x, "False", p)
        s2 == NetCall(s1, "source_to_target", x_norm, "False", p)
    IN  [learning_phase |-> p,
         result |-> ModelApply("source_to_target", x_norm), bn_stats |-> s2]

\* CycleGAN.map_to_source(x)
map_to_source(gan, x, phase, stats) ==
    LET p == PhaseAfter("False", phase)
        x_norm == ModelApply("target_pre", x)
        s1 == NetCall(stats, "target_pre", x, "False", p)
        s2 == NetCall(s1, "target_to_source", x_norm, "False", p)
    IN  [learning_phase |-> p,
         result |-> ModelApply("target_to_source", x_norm), bn_stats |-> s2]

\* the shapes and the dest arguments passed
ShapeInputs == {<<MaxTime, 1>>, <<MaxTime, MaxFeat>>}

DestInputs == {"target", "source", "Target", ""}

InitGAN == Init

\* model = CycleGAN(source_x_shape, target_x_shape)
ConstructGAN ==
    /\ Idle
    /\ \E source_x_shape \in ShapeInputs, target_x_shape \in ShapeInputs :
         LET r == CycleGAN_init(source_x_shape, target_x_shape, FLAGS)
         IN  /\ last' = [op |-> "CycleGAN", result |-> r]
             /\ model' = IF Raised(r) THEN model ELSE r
             /\ bn_stats' = IF Raised(r) THEN bn_stats ELSE NewStats
    /\ UNCHANGED <<global_step, learning_phase, FLAGS, env, tf_variables>>

\* model(x, dest, training=...)
CallGAN ==
    /\ Idle
    /\ model.tag = "CycleGAN"
    /\ \E inputs \in DataInputs, dest \in DestInputs,
          training \in TrainingInputs :
         LET r == CycleGAN_call(model, inputs, dest, training,
                                learning_phase, bn_stats)
         IN  /\ learning_phase' = r.learning_phase
             /\ bn_stats' = r.bn_stats
             /\ last' = [op |-> "CycleGAN.call", inputs |-> inputs,
                         dest |-> dest, training |-> training,
                         phase |-> learning_phase, result |-> r.result]
    /\ UNCHANGED <<global_step, model, FLAGS, env, tf_variables>>

\* model.map_to_target(x)
CallMapToTarget ==
    /\ Idle
    /\ model.tag = "CycleGAN"
    /\ \E x \in DataInputs :
         LET r == map_to_target(model, x, learning_phase, bn_stats)
         IN  /\ learning_phase' = r.learning_phase
             /\ bn_stats' = r.bn_stats
             /\ last' = [op |-> "map_to_target", inputs |-> x,
                         result |-> r.result]
    /\ UNCHANGED <<global_step, model, FLAGS, env, tf_variables>>

\* model.map_to_source(x)
CallMapToSource ==
    /\ Idle
    /\ model.tag = "CycleGAN"
    /\ \E x \in DataInputs :
         LET r == map_to_source(model, x, learning_phase, bn_stats)
         IN  /\ learning_phase' = r.learning_phase
             /\ bn_stats' = r.bn_stats
             /\ last' = [op |-> "map_to_source", inputs |-> x,
                         result |-> r.result]
    /\ UNCHANGED <<global_step, model, FLAGS, env, tf_variables>>

NextGAN ==
    \/ Return
    \/ ConstructGAN
    \/ CallGAN
    \/ CallMapToTarget
    \/ CallMapToSource

SpecGAN == InitGAN /\ [][NextGAN]_vars

\* C13: CycleGAN.call(x, "target") returns (G_st(pre_s(x)),
\* G_ts(pre_t(G_st(pre_s(x)))), D_s(pre_s(x)), D_t(pre_t(G_st(pre_s(x))))),
\* CycleGAN.call(x, "source") returns the same with the source and target
\* roles swapped, and any other dest raises NotImplementedError.
C13_CallComposition ==
    last.op = "CycleGAN.call" =>
        LET x == last.inputs
            pre_s(t) == [tag |-> "apply", net |-> "source_pre", arg |-> t]
            pre_t(t) == [tag |-> "apply", net |-> "target_pre", arg |-> t]
            G_st(t) == [tag |-> "apply", net |-> "source_to_target", arg |-> t]
            G_ts(t) == [tag |-> "apply", net |-> "target_to_source", arg |-> t]
            D_s(t) == [tag |-> "apply", net |-> "source_discriminator", arg |-> t]
            D_t(t) == [tag |-> "apply", net |-> "target_discriminator", arg |-> t]
        IN  CASE last.dest = "target" ->
                   /\ last.result.tag = "tuple"
                   /\ last.result.v = <<G_st(pre_s(x)),
                                        G_ts(pre_t(G_st(pre_s(x)))),
                                        D_s(pre_s(x)),
                                        D_t(pre_t(G_st(pre_s(x))))>>
              [] last.dest = "source" ->
                   /\ last.result.tag = "tuple"
                   /\ last.result.v = <<G_ts(pre_t(x)),
                                        G_st(pre_s(G_ts(pre_t(x)))),
                                        D_t(pre_t(x)),
                                        D_s(pre_s(G_ts(pre_t(x))))>>
              [] OTHER -> last.result.tag = "NotImplementedError"

C13_Witness ==
    /\ last.op = "CycleGAN.call"
    /\ last.dest = "source"
    /\ last.inputs = DataBatch("target", 1)
    /\ last.result.tag = "tuple"
    /\ last.result.v[1].net = "target_to_source"
    /\ last.result.v[2].net = "source_to_target"
    /\ last.result.v[2].arg.arg = last.result.v[1]
    /\ last.result.v[3].net = "target_discriminator"
    /\ last.result.v[4].net = "source_discriminator"

\* C14: the statistics of source_pre are updated only by the real input of
\* a call with dest "target" in training mode, those of target_pre only by
\* the real input of a call with dest "source" in training mode; generated
\* data never updates them, and map_to_target and map_to_source change no
\* batch-normalization statistics at all.  Stated of every call on an
\* existing CycleGAN (a construction makes a new object with new statistics).
C14_PreStatsOnlyFromRealTrainingInputs ==
    [][model.tag = "CycleGAN" /\ last'.op # "CycleGAN" =>
        LET trains == \/ last'.training = "True"
                      \/ last'.training = "None" /\ learning_phase' = 1
        IN  /\ \A x \in bn_stats'.source_pre \ bn_stats.source_pre :
                 /\ last'.op = "CycleGAN.call"
                 /\ last'.dest = "target"
                 /\ x = last'.inputs
                 /\ x.tag = "data"
                 /\ trains
            /\ \A x \in bn_stats'.target_pre \ bn_stats.target_pre :
                 /\ last'.op = "CycleGAN.call"
                 /\ last'.dest = "source"
                 /\ x = last'.inputs
                 /\ x.tag = "data"
                 /\ trains
            /\ bn_stats.source_pre \subseteq bn_stats'.source_pre
            /\ bn_stats.target_pre \subseteq bn_stats'.target_pre
            /\ last'.op \in {"map_to_target", "map_to_source"} =>
                 bn_stats' = bn_stats]_vars

C14_Witness ==
    /\ model.tag = "CycleGAN"
    /\ last.op = "CycleGAN.call"
    /\ last.dest = "target"
    /\ last.training = "None"
    /\ learning_phase = 1
    /\ bn_stats.source_pre = {last.inputs}
    /\ bn_stats.target_pre = {}
    /\ last.result.v[1] \in {t.arg : t \in bn_stats.target_to_source}
    /\ bn_stats.target_discriminator # {}

(***************************************************************************)
(* load_datasets.py: Dataset() with keyword arguments                      *)
(***************************************************************************)
\* the keyword arguments that default to flags
KwargNames == {"train_batch", "eval_batch", "shuffle_buffer", "prefetch_buffer", "eval_shuffle_seed", "eval_max_examples", "tune_num_parallel_calls"}

\* a number passed or left out, a boolean passed or left out
NumberArgs == {NoneVal, Some(0), Some(MaxBatch)}

BooleanArgs == {NoneVal, Some(FALSE), Some(TRUE)}

KwargInputs ==
    [train_batch : NumberArgs, eval_batch : NumberArgs,
     shuffle_buffer : NumberArgs, prefetch_buffer : NumberArgs,
     eval_shuffle_seed : NumberArgs, eval_max_examples : NumberArgs,
     tune_num_parallel_calls : BooleanArgs]

\* the flags as defined, and as set on a command line
FlagChoices ==
    {FlagDefaults,
     [FlagDefaults EXCEPT !.train_batch = 32, !.prefetch_buffer = 0,
                          !.eval_shuffle_seed = 7, !.eval_max_examples = 100,
                          !.tune_num_parallel_calls = TRUE]}

InitDataset ==
    /\ global_step = 0
    /\ model = NoneVal
    /\ learning_phase = 0
    /\ FLAGS \in FlagChoices
    /\ env = [NoEnv EXCEPT !.map_to_source = {<<"ucihar", "_", "1">>},
                           !.map_to_target = {<<"ucihar", "_", "1">>}]
    /\ tf_variables = NoWeights
    /\ bn_stats = NoStats
    /\ last = [op |-> "idle"]

\* Dataset(num_classes, class_labels, num_domains, train_filenames,
\*         test_filenames, invert_name, **kwargs)
CallDataset ==
    /\ Idle
    /\ \E num_classes \in 2..3, n \in 2..3,
          invert_name \in {NoneVal, Some(<<"ucihar", "_", "1">>),
                           Some(<<"ucihar", "_", "2">>)},
          kw \in KwargInputs :
         LET class_labels == SubSeq(ClassLabels, 1, n)
             train == <<os_path_join("datasets",
                          tfrecord_filename(<<"ucihar", "_", "1">>, "train"))>>
         IN  last' = [op |-> "Dataset", num_classes |-> num_classes,
                      class_labels |-> class_labels,
                      invert_name |-> invert_name, kw |-> kw,
                      result |-> Dataset_init(num_classes, class_labels, 1,
                                     train, <<>>, invert_name, kw, FLAGS,
                                     env)]
    /\ UNCHANGED <<global_step, model, learning_phase, FLAGS, env, tf_variables, bn_stats>>

NextDataset ==
    \/ Return
    \/ CallDataset

SpecDataset == InitDataset /\ [][NextDataset]_vars

\* C15: Dataset() raises AssertionError when num_classes differs from
\* len(class_labels); a Dataset that is constructed (always, when the
\* classes agree and invert_name is None) holds, for each of train_batch,
\* eval_batch, shuffle_buffer, prefetch_buffer, eval_shuffle_seed,
\* eval_max_examples and tune_num_parallel_calls, the flag of the same name
\* if the argument was None, and the argument itself otherwise, 0 and
\* False included.
C15_DefaultsOnlyForNone ==
    last.op = "Dataset" =>
        /\ last.num_classes # Len(last.class_labels) =>
             last.result.tag = "AssertionError"
        /\ (last.num_classes = Len(last.class_labels)
              /\ last.invert_name.tag = "None") =>
             last.result.tag = "Dataset"
        /\ last.result.tag = "Dataset" =>
             /\ last.num_classes = Len(last.class_labels)
             /\ \A f \in KwargNames :
                  IF last.kw[f].tag = "None"
                  THEN last.result[f] = FLAGS[f]
                  ELSE last.result[f] = last.kw[f].v

C15_Witness ==
    /\ last.op = "Dataset"
    /\ last.result.tag = "Dataset"
    /\ last.kw.train_batch = Some(0)
    /\ last.result.train_batch = 0
    /\ FLAGS.train_batch = 32
    /\ last.kw.tune_num_parallel_calls = Some(FALSE)
    /\ last.result.tune_num_parallel_calls = FALSE
    /\ FLAGS.tune_num_parallel_calls = TRUE
    /\ last.kw.eval_shuffle_seed.tag = "None"
    /\ last.result.eval_shuffle_seed = 7
    /\ last.kw.eval_batch = Some(MaxBatch)
    /\ last.result.eval_batch = MaxBatch

====
